---- MODULE Spec2Model ----
(***************************************************************************)
(* A model of bun-why (src/index.js): the reverse dependency index built   *)
(* from bun.lock, the spec matcher, the why-tree builder and the formatter.*)
(*                                                                         *)
(* A JavaScript string is modelled as a sequence of lexemes.  The          *)
(* characters the code inspects ("@", "/", "\", the newline, the two       *)
(* spaces of one indent level) are lexemes of their own; a run of other    *)
(* characters (a package name without scope, a version, a range, the word  *)
(* node_modules) is one lexeme.  Indices are 0-based, as in JavaScript.    *)
(***************************************************************************)
EXTENDS Integers, Sequences, FiniteSets, TLC

(***************************************************************************)
(* Bounds of the model.                                                    *)
(***************************************************************************)
\* The largest number of entries of `packages` in a lockfile.
MaxPkgs == 3
\* The largest number of specs passed to explain().
MaxSpecs == 2
\* The largest number of atomic segments of a requiring location.
MaxDepth == 3

(***************************************************************************)
(* JavaScript string and array primitives, on sequences of lexemes.        *)
(***************************************************************************)
Min(S) == CHOOSE x \in S : \A y \in S : x <= y

Max2(a, b) == IF a >= b THEN a ELSE b

Min2(a, b) == IF a <= b THEN a ELSE b

Range(s) == {s[k] : k \in 1..Len(s)}

\* String.prototype.indexOf(ch, from): the 0-based index, or -1.
IndexOf(s, ch, from) ==
    LET hits == {k \in from..(Len(s) - 1) : s[k + 1] = ch}
    IN  IF hits = {} THEN -1 ELSE Min(hits)

\* How slice() reads an index: a negative one counts from the end.
SliceIndex(s, i) == IF i < 0 THEN Max2(Len(s) + i, 0) ELSE Min2(i, Len(s))

\* String.prototype.slice(a, b) and Array.prototype.slice(a, b).
Slice(s, a, b) == SubSeq(s, SliceIndex(s, a) + 1, SliceIndex(s, b))

\* String.prototype.slice(a) and Array.prototype.slice(a).
SliceFrom(s, a) == SubSeq(s, SliceIndex(s, a) + 1, Len(s))

\* String.prototype.endsWith(suffix).
EndsWith(s, suffix) ==
    /\ Len(suffix) <= Len(s)
    /\ SubSeq(s, Len(s) - Len(suffix) + 1, Len(s)) = suffix

\* String.prototype.split(sep) for a one-character separator.
RECURSIVE Split(_, _)
Split(s, sep) ==
    LET i == IndexOf(s, sep, 0)
    IN  IF i < 0 THEN <<s>>
        ELSE <<SubSeq(s, 1, i)>> \o Split(SubSeq(s, i + 2, Len(s)), sep)

\* Array.prototype.join(sep).
RECURSIVE Join(_, _)
Join(parts, sep) ==
    IF Len(parts) = 0 THEN <<>>
    ELSE IF Len(parts) = 1 THEN parts[1]
    ELSE parts[1] \o sep \o Join(Tail(parts), sep)

\* spec.replace(/\\/g, '/')
BackslashToSlash(s) == [k \in 1..Len(s) |-> IF s[k] = "\\" THEN "/" ELSE s[k]]

\* s.replace(/\/node_modules\//g, '/'): matches are found left to right and do
\* not overlap, so the "/" that ends one match cannot start the next.
RECURSIVE CollapseNodeModules(_)
CollapseNodeModules(s) ==
    IF Len(s) = 0 THEN <<>>
    ELSE IF Len(s) >= 3 /\ SubSeq(s, 1, 3) = <<"/", "node_modules", "/">>
         THEN <<"/">> \o CollapseNodeModules(SubSeq(s, 4, Len(s)))
    ELSE <<s[1]>> \o CollapseNodeModules(Tail(s))

(***************************************************************************)
(* Location Resolver.                                                      *)
(***************************************************************************)
\* The first loop of iterateLocations: the raw "/"-separated pieces, a piece
\* that starts with "@" glued to the piece after it (raw[++i], which is
\* undefined, printed "undefined", when there is none).
RECURSIVE AtomicParts(_, _)
AtomicParts(raw, i) ==
    IF i > Len(raw) THEN <<>>
    ELSE IF Len(raw[i]) > 0 /\ raw[i][1] = "@"
         THEN <<raw[i] \o <<"/">>
                  \o (IF i + 1 <= Len(raw) THEN raw[i + 1] ELSE <<"undefined">>)>>
              \o AtomicParts(raw, i + 2)
    ELSE <<raw[i]>> \o AtomicParts(raw, i + 1)

\* A variant that forgets the scope rule and walks the raw pieces.
IterateLocationsNoScope(dir, name) ==
    LET parts == Split(dir, "/")
        n == Len(parts)
    IN  [k \in 1..(n + 1) |->
            IF k <= n THEN Join(SubSeq(parts, 1, n + 1 - k), <<"/">>) \o <<"/">> \o name
            ELSE name]

\* function* iterateLocations(dir, name): the candidates, in the order yielded.
IterateLocations(dir, name) ==
    LET parts == AtomicParts(Split(dir, "/"), 1)
        n == Len(parts)
    IN  [k \in 1..(n + 1) |->
            IF k <= n THEN Join(Slice(parts, 0, n + 1 - k), <<"/">>) \o <<"/">> \o name
            ELSE name]

(***************************************************************************)
(* The collaborators src/index.js imports.                                 *)
(***************************************************************************)
\* Lexemes that encodeURIComponent leaves alone: plain names, versions, "*".
UrlSafeLexemes ==
    {"foo", "bar", "baz", "s", "b", "a", "d", "constructor", "undefined",
     "__proto__", "node_modules", "1.0.0", "1.2.0", "2.0.0", "3.0.0-rc", "*"}

\* validate(spec).validForOldPackages of validate-npm-package-name: a name of
\* URL-friendly characters that does not start with "_" and is not on the
\* exclusion list, or a scoped name "@user/pkg" whose two halves are URL-friendly.
ValidForOldPackages(spec) ==
    \/ /\ Len(spec) = 1
       /\ spec[1] \in UrlSafeLexemes \ {"__proto__", "node_modules"}
    \/ /\ Len(spec) = 4
       /\ spec[1] = "@" /\ spec[3] = "/"
       /\ spec[2] \in UrlSafeLexemes /\ spec[4] \in UrlSafeLexemes

\* The released versions of the model: the last one is a prerelease.
Versions == {"1.0.0", "1.2.0", "2.0.0", "3.0.0-rc"}

\* The versions a range admits (semver: "*" and the empty range admit every
\* release and no prerelease; an unparsable range admits nothing).
RangeVersions(range) ==
    IF range = <<>> \/ range = <<"*">> THEN {"1.0.0", "1.2.0", "2.0.0"}
    ELSE IF range = <<"^1.0.0">> THEN {"1.0.0", "1.2.0"}
    ELSE IF range = <<"^2.0.0">> THEN {"2.0.0"}
    ELSE IF Len(range) = 1 /\ range[1] \in Versions THEN {range[1]}
    ELSE {}

\* satisfies(version, range) of semver: false for a version that does not parse.
Satisfies(version, range) ==
    /\ Len(version) = 1
    /\ version[1] \in Versions
    /\ version[1] \in RangeVersions(range)

(***************************************************************************)
(* Lockfile Model: `packages` is an object, modelled as the sequence of    *)
(* its entries in key order.  An entry is [id, "", {dependencies,          *)
(* optionalDependencies}]; a dependency map is the sequence of its         *)
(* <<name, range>> pairs in key order.                                     *)
(***************************************************************************)
Pkg(location, id, dependencies, optionalDependencies) ==
    [location |-> location, id |-> id, dependencies |-> dependencies,
     optionalDependencies |-> optionalDependencies]

Locations(packages) == {packages[k].location : k \in 1..Len(packages)}

\* Object.hasOwn(packages, key)
HasOwn(packages, key) == key \in Locations(packages)

\* packages[key] for an own key.
Entry(packages, key) ==
    packages[CHOOSE k \in 1..Len(packages) : packages[k].location = key]

\* Keys every object parsed by JSON.parse inherits from Object.prototype.
ObjectPrototypeKeys == {<<"__proto__">>, <<"constructor">>}

\* Whether packages[key] is truthy: an own entry (an array), or a member the
\* object inherits.
Truthy(packages, key) == HasOwn(packages, key) \/ key \in ObjectPrototypeKeys

(***************************************************************************)
(* Reverse Index Builder.                                                  *)
(***************************************************************************)
\* dependents[loc] ??= []; dependents[loc].push(location)
Push(dependents, loc, location) ==
    IF loc \in DOMAIN dependents
    THEN [dependents EXCEPT ![loc] = Append(@, location)]
    ELSE dependents @@ (loc :> <<location>>)

\* A variant that takes the nearest candidate present, whatever its version.
RECURSIVE FirstMatchAnyVersion(_, _, _, _)
FirstMatchAnyVersion(packages, cands, range, k) ==
    IF k > Len(cands) THEN [kind |-> "none"]
    ELSE IF HasOwn(packages, cands[k]) THEN [kind |-> "match", loc |-> cands[k]]
    ELSE FirstMatchAnyVersion(packages, cands, range, k + 1)

\* The loop over iterateLocations in scanDeps (lines 154-167), from candidate
\* k on: the candidate the `break` is reached at, none, or the TypeError of
\* info[0].indexOf when packages[maybeLoc] is an inherited member.
RECURSIVE FirstMatch(_, _, _, _)
FirstMatch(packages, cands, range, k) ==
    IF k > Len(cands) THEN [kind |-> "none"]
    ELSE IF HasOwn(packages, cands[k])
         THEN LET id == Entry(packages, cands[k]).id
                  i == IndexOf(id, "@", 1)
              IN  IF i > 0 /\ Satisfies(SliceFrom(id, i + 1), range)
                  THEN [kind |-> "match", loc |-> cands[k]]
                  ELSE FirstMatch(packages, cands, range, k + 1)
    ELSE IF Truthy(packages, cands[k]) THEN [kind |-> "throw"]
    ELSE FirstMatch(packages, cands, range, k + 1)

\* scanDeps(pkg.dependencies); scanDeps(pkg.optionalDependencies) for one
\* location, from declaration k on.  acc is [threw, dependents].
RECURSIVE ScanDeps(_, _, _, _, _)
ScanDeps(packages, location, decls, k, acc) ==
    IF acc.threw \/ k > Len(decls) THEN acc
    ELSE LET hit == FirstMatch(packages, IterateLocations(location, decls[k][1]),
                               decls[k][2], 1)
         IN  ScanDeps(packages, location, decls, k + 1,
                 IF hit.kind = "throw" THEN [acc EXCEPT !.threw = TRUE]
                 ELSE IF hit.kind = "match"
                      THEN [acc EXCEPT !.dependents = Push(@, hit.loc, location)]
                 ELSE acc)

\* The declarations of an entry in the order scanned.
Declarations(entry) == entry.dependencies \o entry.optionalDependencies

\* The loop over the lockfile's locations (line 150), from entry k on.
RECURSIVE ScanLocations(_, _, _)
ScanLocations(packages, k, acc) ==
    IF acc.threw \/ k > Len(packages) THEN acc
    ELSE ScanLocations(packages, k + 1,
             ScanDeps(packages, packages[k].location, Declarations(packages[k]), 1, acc))

\* readLockfile(): [threw, dependents]; packages is the parsed file.
ReadLockfile(packages) ==
    ScanLocations(packages, 1, [threw |-> FALSE, dependents |-> <<>>])

(***************************************************************************)
(* Spec Matcher.  `collected` is a Set: a sequence without repeats, in     *)
(* insertion order.                                                        *)
(***************************************************************************)
\* collected.add(x)
Add(collected, x) == IF x \in Range(collected) THEN collected ELSE Append(collected, x)

\* The name part of an id as byPackageName and makeWhy cut it:
\* id.slice(0, id.indexOf('@', 1)).
IdName(id) == Slice(id, 0, IndexOf(id, "@", 1))

\* The version part of an id: id.slice(id.indexOf('@', 1) + 1).
IdVersion(id) == SliceFrom(id, IndexOf(id, "@", 1) + 1)

\* The for-in loop of byPackageName (lines 77-85), from entry k on.
RECURSIVE ByPackageNameScan(_, _, _, _)
ByPackageNameScan(packages, name, k, collected) ==
    IF k > Len(packages) THEN collected
    ELSE ByPackageNameScan(packages, name, k + 1,
             IF /\ EndsWith(packages[k].location, <<"/">> \o name)
                /\ IdName(packages[k].id) = name
             THEN Add(collected, packages[k].location)
             ELSE collected)

\* byPackageName(name)
ByPackageName(packages, name, collected) ==
    ByPackageNameScan(packages, name, 1,
        IF HasOwn(packages, name) THEN Add(collected, name) ELSE collected)

\* byLocation(location)
ByLocation(packages, location, collected) ==
    IF HasOwn(packages, location) THEN Add(collected, location) ELSE collected

\* The for-in loop of bySpec (lines 105-114), from entry k on.
RECURSIVE BySpecScan(_, _, _, _, _)
BySpecScan(packages, name, range, k, collected) ==
    IF k > Len(packages) THEN collected
    ELSE BySpecScan(packages, name, range, k + 1,
             IF /\ IndexOf(packages[k].id, "@", 1) > 0
                /\ IdName(packages[k].id) = name
                /\ Satisfies(IdVersion(packages[k].id), range)
             THEN Add(collected, packages[k].location)
             ELSE collected)

\* bySpec(name, range)
BySpec(packages, name, range, collected) ==
    IF range = <<"*">> THEN ByPackageName(packages, name, collected)
    ELSE BySpecScan(packages, name, range, 1, collected)

\* A variant that forgets to collapse the node_modules segments.
MaybeLocNoCollapse(spec) == BackslashToSlash(spec)

\* maybeLoc (line 123)
MaybeLoc(spec) == CollapseNodeModules(BackslashToSlash(spec))

\* One turn of the loop over specs (lines 118-134): [threw, collected].
CollectSpec(packages, spec, collected) ==
    IF ValidForOldPackages(spec)
    THEN [threw |-> FALSE, collected |-> ByPackageName(packages, spec, collected)]
    ELSE IF Truthy(packages, MaybeLoc(spec))
    THEN [threw |-> FALSE, collected |-> ByLocation(packages, MaybeLoc(spec), collected)]
    ELSE LET i == IndexOf(spec, "@", 1)
         IN  IF i > 0
             THEN [threw |-> FALSE,
                   collected |-> BySpec(packages, Slice(spec, 0, i),
                                        IF SliceFrom(spec, i + 1) = <<>> THEN <<"*">>
                                        ELSE SliceFrom(spec, i + 1),
                                        collected)]
             ELSE [threw |-> TRUE, collected |-> collected]

\* collectLocationsFromSpecs(packages, specs), from spec k on: the throw of one
\* spec ends the loop.
RECURSIVE CollectFrom(_, _, _, _)
CollectFrom(packages, specs, k, acc) ==
    IF acc.threw \/ k > Len(specs) THEN acc
    ELSE CollectFrom(packages, specs, k + 1, CollectSpec(packages, specs[k], acc.collected))

CollectLocationsFromSpecs(packages, specs) ==
    CollectFrom(packages, specs, 1, [threw |-> FALSE, collected |-> <<>>])

(***************************************************************************)
(* Why-nodes.                                                              *)
(***************************************************************************)
\* What makeWhy returns for an id without "@" after position 0.
Undefined == [kind |-> "undefined"]

WhyNode(name, version, location, deps) ==
    [kind |-> "why", name |-> name, version |-> version, location |-> location,
     dependents |-> deps]

\* dependents[location]?.map(...) || [] reads this list.
DependentsOf(dependents, location) ==
    IF location \in DOMAIN dependents THEN dependents[location] ELSE <<>>

\* .filter(x => !!x)
RECURSIVE FilterDefined(_)
FilterDefined(list) ==
    IF Len(list) = 0 THEN <<>>
    ELSE IF list[1].kind = "undefined" THEN FilterDefined(Tail(list))
    ELSE <<list[1]>> \o FilterDefined(Tail(list))

(***************************************************************************)
(* Formatter.  A line is a string; `out` is the list of lines pushed.      *)
(***************************************************************************)
\* '  '.repeat(depth)
RECURSIVE Indent(_)
Indent(depth) == IF depth = 0 THEN <<>> ELSE <<"  ">> \o Indent(depth - 1)

\* dim(str): the escape codes when the terminal has colors.
Dim(colors, str) == IF colors THEN <<"ESC[2m">> \o str \o <<"ESC[22m">> ELSE str

\* The loop of expandLocation (lines 266-273), from raw piece i on.
RECURSIVE ExpandParts(_, _)
ExpandParts(parts, i) ==
    IF i > Len(parts) THEN <<>>
    ELSE IF Len(parts[i]) > 0 /\ parts[i][1] = "@"
         THEN <<"/", "node_modules", "/">> \o parts[i] \o <<"/">>
              \o (IF i + 1 <= Len(parts) THEN parts[i + 1] ELSE <<"undefined">>)
              \o ExpandParts(parts, i + 2)
    ELSE <<"/", "node_modules", "/">> \o parts[i] \o ExpandParts(parts, i + 1)

\* expandLocation(location)
ExpandLocation(location) == SliceFrom(ExpandParts(Split(location, "/"), 1), 1)

\* One for-in loop of rangeOf over a dependency map, from pair k on.
RECURSIVE RangeIn(_, _, _, _)
RangeIn(deps, name, version, k) ==
    IF k > Len(deps) THEN [found |-> FALSE]
    ELSE IF deps[k][1] = name /\ Satisfies(version, deps[k][2])
         THEN [found |-> TRUE, range |-> deps[k][2]]
    ELSE RangeIn(deps, name, version, k + 1)

\* A variant that reads only `dependencies`.
RangeOfDependenciesOnly(info, name, version) ==
    RangeIn(info.dependencies, name, version, 1)

\* rangeOf(info, name, version): found is FALSE for the undefined it falls to.
RangeOf(info, name, version) ==
    IF RangeIn(info.dependencies, name, version, 1).found
    THEN RangeIn(info.dependencies, name, version, 1)
    ELSE RangeIn(info.optionalDependencies, name, version, 1)

\* rangeOf(...) || '*': undefined and the empty string are falsy.
OrStar(r) == IF r.found /\ r.range # <<>> THEN r.range ELSE <<"*">>

\* A variant that takes `why` for the package required and `dependency` for
\* the one requiring it.
HeadLinesRolesSwapped(packages, why, depth, dependency) ==
    IF depth > 0 /\ dependency.kind = "why"
    THEN <<Indent(depth) \o why.name \o <<"@">>
             \o OrStar(RangeOf(Entry(packages, dependency.location), why.name,
                               why.version))
             \o <<" from ">> \o dependency.name \o <<"@">> \o dependency.version>>
    ELSE <<<<>>, Indent(depth) \o why.name \o <<"@">> \o why.version>>

\* The lines format1 pushes for `why` at depth > 0 below `dependency`, and
\* for a top-level node (dependency is Undefined then).
HeadLines(packages, why, depth, dependency) ==
    IF depth > 0 /\ dependency.kind = "why"
    THEN <<Indent(depth) \o dependency.name \o <<"@">>
             \o OrStar(RangeOf(Entry(packages, why.location), dependency.name,
                               dependency.version))
             \o <<" from ">> \o why.name \o <<"@">> \o why.version>>
    ELSE <<<<>>, Indent(depth) \o why.name \o <<"@">> \o why.version>>

\* format1(out, packages, why, depth, dependency): [threw, lines], the lines
\* pushed; reading why.location of an undefined `why` is a TypeError.
RECURSIVE Format1(_, _, _, _, _)
RECURSIVE Format1List(_, _, _, _, _, _)
Format1(packages, colors, why, depth, dependency) ==
    IF why.kind = "undefined" THEN [threw |-> TRUE, lines |-> <<>>]
    ELSE LET below == Format1List(packages, colors, why.dependents, 1, depth + 1, why)
         IN  [threw |-> below.threw,
              lines |-> HeadLines(packages, why, depth, dependency)
                        \o <<Indent(depth) \o Dim(colors, ExpandLocation(why.location))>>
                        \o below.lines]

\* The loops `for (dep of why.dependents)` and `for (why of result)`, from
\* element k on.
Format1List(packages, colors, list, k, depth, dependency) ==
    IF k > Len(list) THEN [threw |-> FALSE, lines |-> <<>>]
    ELSE LET first == Format1(packages, colors, list[k], depth, dependency)
         IN  IF first.threw THEN first
             ELSE LET rest == Format1List(packages, colors, list, k + 1, depth, dependency)
                  IN  [threw |-> rest.threw, lines |-> first.lines \o rest.lines]

\* format(result): [threw, text]; packages is the lockfile read again.
Format(packages, colors, result) ==
    IF Len(result) = 0 THEN [threw |-> FALSE, text |-> <<>>]
    ELSE LET all == Format1List(packages, colors, result, 1, 0, Undefined)
         IN  [threw |-> all.threw,
              text |-> IF all.threw THEN <<>>
                       ELSE Join(SliceFrom(all.lines, 1), <<"\n">>)]

(***************************************************************************)
(* The inputs of the model: lockfiles and spec lists.                      *)
(***************************************************************************)
Foo == <<"foo">>

Bar == <<"bar">>

Baz == <<"baz">>

ScopedB == <<"@", "s", "/", "b">>

\* "name@version"
At(name, version) == name \o <<"@", version>>

\* "location/name"
Under(location, name) == location \o <<"/">> \o name

\* The entries lockfiles are made of.  Two entries of one location are
\* alternatives: a lockfile holds at most one of them.
Catalog ==
    << \* foo requires bar@^1.0.0 ...
       Pkg(Foo, At(Foo, "1.0.0"), <<<<Bar, <<"^1.0.0">>>>>>, <<>>),
       \* ... and has a private copy of it,
       Pkg(Under(Foo, Bar), At(Bar, "1.2.0"), <<>>, <<>>),
       \* or a private copy that is too new.
       Pkg(Under(Foo, Bar), At(Bar, "2.0.0"), <<>>, <<>>),
       \* A hoisted bar that requires foo back,
       Pkg(Bar, At(Bar, "1.0.0"), <<<<Foo, <<"^1.0.0">>>>>>, <<>>),
       \* or a hoisted bar that is too new.
       Pkg(Bar, At(Bar, "2.0.0"), <<>>, <<>>),
       \* An entry whose id has no "@": it still declares a dependency.
       Pkg(Foo, Foo, <<<<Bar, <<"^1.0.0">>>>>>, <<>>),
       \* An alias: the key is baz, the package is bar ("baz": "npm:bar@1.0.0").
       Pkg(Baz, At(Bar, "1.0.0"), <<>>, <<>>),
       \* A scoped package that requires the alias, and bar with an empty range.
       Pkg(ScopedB, At(ScopedB, "1.0.0"), <<<<Baz, <<"*">>>>>>, <<<<Bar, <<>>>>>>),
       \* A prerelease below the scoped package.
       Pkg(Under(ScopedB, Bar), At(Bar, "3.0.0-rc"), <<>>, <<>>),
       \* A nested scoped package that declares bar twice.
       Pkg(Under(Foo, ScopedB), At(ScopedB, "2.0.0"),
           <<<<Bar, <<"^2.0.0">>>>>>, <<<<Bar, <<"^1.0.0">>>>>>),
       \* An optional dependency that is not installed and is named like a
       \* member of Object.prototype.
       Pkg(Under(Foo, Baz), At(Baz, "1.0.0"), <<>>, <<<<<<"constructor">>, <<"*">>>>>>) >>

\* The entries the Spec Matcher is exercised on (it reads keys and ids only).
MatchCatalog ==
    << Catalog[1], Catalog[2], Catalog[4], Catalog[6], Catalog[7], Catalog[8],
       Catalog[10] >>

\* The entries of catalog picked by the index set I, in catalog order.
RECURSIVE Pick(_, _)
Pick(catalog, I) ==
    IF I = {} THEN <<>>
    ELSE <<catalog[Min(I)]>> \o Pick(catalog, I \ {Min(I)})

\* The lockfiles of at most MaxPkgs entries of a catalog: keys are unique.
Lockfiles(catalog) ==
    {Pick(catalog, I) : I \in
        {J \in SUBSET (1..Len(catalog)) :
            /\ Cardinality(J) <= MaxPkgs
            /\ \A i, j \in J : i # j => catalog[i].location # catalog[j].location}}

\* The specs the Spec Matcher is exercised on.
Queries ==
    { Bar, ScopedB,
      <<"foo", "\\", "bar">>,
      <<"foo", "/", "node_modules", "/", "bar">>,
      <<"bar", "@", "^1.0.0">>,
      <<"bar", "@", "*">>,
      <<"bar", "@">>,
      ScopedB \o <<"@", "^1.0.0">>,
      <<"__proto__">> }

\* The lists of at most n elements of S.
SeqsUpTo(S, n) == UNION {[1..m -> S] : m \in 0..n}

\* The spec lists explain() is run to the end on.
ExplainSpecs ==
    { <<>>, <<Bar>>, <<Foo>>, <<Baz>>, <<ScopedB>>, <<<<"bar", "@", "^1.0.0">>>>,
      <<<<"foo", "\\", "bar">>>>, <<Bar, Foo>> }

\* The atomic segments requiring locations are made of.
AtomicSegments == {<<"a">>, <<"b">>, <<"@", "s", "/", "a">>, <<"@", "s", "/", "b">>}

\* The dependency names the Location Resolver is asked for.
DepNames == {<<"d">>, <<"a">>, <<"@", "s", "/", "d">>}

(***************************************************************************)
(* The state: cli.js runs explain(specs), then format(result).             *)
(***************************************************************************)
VARIABLES
    pc,          \* where the run stands
    packages,    \* bun.lock, parsed
    specs,       \* the argument of explain()
    hasColors,   \* tty.WriteStream.prototype.hasColors()
    dependents,  \* the Dependent Index
    collected,   \* entryPoints
    stack,       \* the active calls of makeWhy, the innermost last
    whys,        \* what Array.from(entryPoints, makeWhy) holds so far
    result,      \* what explain() resolved to
    out,         \* what format() resolved to
    err,         \* what the run rejected with
    atoms,       \* Location Resolver: the requiring location, segment by segment
    depName,     \* Location Resolver: the dependency name
    candidates   \* Location Resolver: what iterateLocations yielded

vars == <<pc, packages, specs, hasColors, dependents, collected, stack, whys,
          result, out, err, atoms, depName, candidates>>

\* The call stack the engine allows, counted in calls of makeWhy.  It is one
\* more than any lockfile has locations: a deeper recursion has come back to
\* a location it is already in, and goes on until the engine stops it.
StackLimit == MaxPkgs + 1

Blank ==
    /\ dependents = <<>>
    /\ collected = <<>>
    /\ stack = <<>>
    /\ whys = <<>>
    /\ result = <<>>
    /\ out = <<>>
    /\ err = "none"
    /\ candidates = <<>>

Init ==
    /\ pc = "explain"
    /\ packages \in Lockfiles(Catalog)
    /\ specs \in ExplainSpecs
    /\ hasColors \in BOOLEAN
    /\ atoms = <<>>
    /\ depName = <<>>
    /\ Blank

\* explain(), line 36: readLockfile().
ExplainReadLockfile ==
    /\ pc = "explain"
    /\ LET r == ReadLockfile(packages)
       IN  IF r.threw
           THEN /\ pc' = "failed"
                /\ err' = "TypeError"
                /\ UNCHANGED dependents
           ELSE /\ pc' = "collect"
                /\ dependents' = r.dependents
                /\ UNCHANGED err
    /\ UNCHANGED <<packages, specs, hasColors, collected, stack, whys, result, out,
                   atoms, depName, candidates>>

\* explain(), line 37: collectLocationsFromSpecs(packages, specs).
ExplainCollect ==
    /\ pc = "collect"
    /\ LET c == CollectLocationsFromSpecs(packages, specs)
       IN  IF c.threw
           THEN /\ pc' = "failed"
                /\ err' = "InvalidSpec"
                /\ UNCHANGED collected
           ELSE /\ pc' = "why"
                /\ collected' = c.collected
                /\ UNCHANGED err
    /\ UNCHANGED <<packages, specs, hasColors, dependents, stack, whys, result, out,
                   atoms, depName, candidates>>

\* A call of makeWhy in progress: its location and the results of the calls
\* its map() has made so far.
Frame(location) == [location |-> location, kids |-> <<>>]

Top == stack[Len(stack)]

\* makeWhy, lines 48-51: the id of the innermost call has its "@".
TopWellFormed == IndexOf(Entry(packages, Top.location).id, "@", 1) > 0

\* The innermost call has dependents left to map.
TopHasMore == Len(Top.kids) < Len(DependentsOf(dependents, Top.location))

\* What the innermost call returns.
TopValue ==
    IF TopWellFormed
    THEN WhyNode(IdName(Entry(packages, Top.location).id),
                 IdVersion(Entry(packages, Top.location).id),
                 Top.location, Top.kids)
    ELSE Undefined

\* explain(), line 38: Array.from calls makeWhy on the next entry point.
MakeWhyCall ==
    /\ pc = "why"
    /\ stack = <<>>
    /\ Len(whys) < Len(collected)
    /\ stack' = <<Frame(collected[Len(whys) + 1])>>
    /\ UNCHANGED <<pc, packages, specs, hasColors, dependents, collected, whys, result,
                   out, err, atoms, depName, candidates>>

\* makeWhy, line 61: map() calls makeWhy on the next dependent.
MakeWhyRecurse ==
    /\ pc = "why"
    /\ stack # <<>>
    /\ TopWellFormed
    /\ TopHasMore
    /\ Len(stack) < StackLimit
    /\ stack' = Append(stack,
           Frame(DependentsOf(dependents, Top.location)[Len(Top.kids) + 1]))
    /\ UNCHANGED <<pc, packages, specs, hasColors, dependents, collected, whys, result,
                   out, err, atoms, depName, candidates>>

\* The same call with the stack used up: RangeError, which explain() rejects with.
MakeWhyOverflow ==
    /\ pc = "why"
    /\ stack # <<>>
    /\ TopWellFormed
    /\ TopHasMore
    /\ Len(stack) = StackLimit
    /\ pc' = "failed"
    /\ err' = "RangeError"
    /\ UNCHANGED <<packages, specs, hasColors, dependents, collected, stack, whys,
                   result, out, atoms, depName, candidates>>

\* makeWhy returns (line 51 or line 64) to the map() of its caller, or to
\* Array.from.
MakeWhyReturn ==
    /\ pc = "why"
    /\ stack # <<>>
    /\ ~TopWellFormed \/ ~TopHasMore
    /\ IF Len(stack) = 1
       THEN /\ stack' = <<>>
            /\ whys' = Append(whys, TopValue)
       ELSE /\ stack' = [SubSeq(stack, 1, Len(stack) - 1) EXCEPT
                            ![Len(stack) - 1].kids = Append(@, TopValue)]
            /\ UNCHANGED whys
    /\ UNCHANGED <<pc, packages, specs, hasColors, dependents, collected, result, out,
                   err, atoms, depName, candidates>>

\* explain(), line 38: .filter(x => !!x), and the promise resolves.
ExplainReturn ==
    /\ pc = "why"
    /\ stack = <<>>
    /\ Len(whys) = Len(collected)
    /\ result' = FilterDefined(whys)
    /\ pc' = "format"
    /\ UNCHANGED <<packages, specs, hasColors, dependents, collected, stack, whys, out,
                   err, atoms, depName, candidates>>

\* format(result), which reads the same lockfile again.
FormatResult ==
    /\ pc = "format"
    /\ LET f == Format(packages, hasColors, result)
       IN  IF f.threw
           THEN /\ pc' = "failed"
                /\ err' = "TypeError"
                /\ UNCHANGED out
           ELSE /\ pc' = "done"
                /\ out' = f.text
                /\ UNCHANGED err
    /\ UNCHANGED <<packages, specs, hasColors, dependents, collected, stack, whys,
                   result, atoms, depName, candidates>>

Next ==
    \/ ExplainReadLockfile
    \/ ExplainCollect
    \/ MakeWhyCall
    \/ MakeWhyRecurse
    \/ MakeWhyOverflow
    \/ MakeWhyReturn
    \/ ExplainReturn
    \/ FormatResult

\* explain(specs) followed by format(result), on every lockfile.
Spec == Init /\ [][Next]_vars

\* The Spec Matcher alone, on every list of specs.
InitMatch ==
    /\ pc = "explain"
    /\ packages \in Lockfiles(MatchCatalog)
    /\ specs \in SeqsUpTo(Queries, MaxSpecs)
    /\ hasColors = FALSE
    /\ atoms = <<>>
    /\ depName = <<>>
    /\ Blank

NextMatch == ExplainReadLockfile \/ ExplainCollect

SpecMatch == InitMatch /\ [][NextMatch]_vars

\* The Reverse Index Builder alone.
InitIndex ==
    /\ pc = "explain"
    /\ packages \in Lockfiles(Catalog)
    /\ specs = <<>>
    /\ hasColors = FALSE
    /\ atoms = <<>>
    /\ depName = <<>>
    /\ Blank

NextIndex == ExplainReadLockfile

SpecIndex == InitIndex /\ [][NextIndex]_vars

\* The Location Resolver alone, on every well-formed location.
InitResolve ==
    /\ pc = "resolve"
    /\ packages = <<>>
    /\ specs = <<>>
    /\ hasColors = FALSE
    /\ atoms \in SeqsUpTo(AtomicSegments, MaxDepth) \ {<<>>}
    /\ depName \in DepNames
    /\ Blank

\* iterateLocations(location, depName), drained.
Resolve ==
    /\ pc = "resolve"
    /\ candidates' = IterateLocations(Join(atoms, <<"/">>), depName)
    /\ pc' = "resolved"
    /\ UNCHANGED <<packages, specs, hasColors, dependents, collected, stack, whys,
                   result, out, err, atoms, depName>>

NextResolve == Resolve

SpecResolve == InitResolve /\ [][NextResolve]_vars

(***************************************************************************)
(* What the claims read off a state.                                       *)
(***************************************************************************)
\* The entry at loc has an id with an "@" after position 0, and its name is n.
HasIdName(loc, n) ==
    /\ IndexOf(Entry(packages, loc).id, "@", 1) > 0
    /\ Slice(Entry(packages, loc).id, 0, IndexOf(Entry(packages, loc).id, "@", 1)) = n

\* The entry at loc has a version, and range admits it.
VersionSatisfies(loc, range) ==
    /\ IndexOf(Entry(packages, loc).id, "@", 1) > 0
    /\ Satisfies(SliceFrom(Entry(packages, loc).id,
                           IndexOf(Entry(packages, loc).id, "@", 1) + 1), range)

\* A spec with its backslashes turned and its node_modules segments collapsed.
Normalized(spec) == CollapseNodeModules(BackslashToSlash(spec))

\* How often x occurs in list.
Count(list, x) == Cardinality({k \in 1..Len(list) : list[k] = x})

\* The nodes of a why-tree in the order format1 visits them, each with the
\* node it is a dependent of and its depth.
RECURSIVE Visits(_, _, _)
RECURSIVE VisitsOfList(_, _, _, _)
Visits(node, parent, depth) ==
    <<[node |-> node, parent |-> parent, depth |-> depth]>>
    \o VisitsOfList(node.dependents, 1, node, depth + 1)

VisitsOfList(list, k, parent, depth) ==
    IF k > Len(list) THEN <<>>
    ELSE Visits(list[k], parent, depth) \o VisitsOfList(list, k + 1, parent, depth)

\* The lines of the text format() resolved to.
OutLines == Split(out, "\n")

\* The lines format1 pushes for one visit: three at depth 0, two below.
LinesOfVisit(v) == IF v.depth = 0 THEN 3 ELSE 2

\* The index in OutLines of the first line of visit k (the blank line pushed
\* first is sliced off).
RECURSIVE FirstLine(_, _)
FirstLine(visits, k) ==
    IF k = 1 THEN 0 ELSE FirstLine(visits, k - 1) + LinesOfVisit(visits[k - 1])

\* The first range `from` declares on `name` that `version` satisfies,
\* dependencies before optionalDependencies; "*" when there is none or when
\* it is the empty string.
DeclaredRange(from, name, version) ==
    LET deps == Entry(packages, from).dependencies
        opts == Entry(packages, from).optionalDependencies
        inDeps == {k \in 1..Len(deps) : deps[k][1] = name /\ Satisfies(version, deps[k][2])}
        inOpts == {k \in 1..Len(opts) : opts[k][1] = name /\ Satisfies(version, opts[k][2])}
        found == IF inDeps # {} THEN deps[Min(inDeps)][2]
                 ELSE IF inOpts # {} THEN opts[Min(inOpts)][2]
                 ELSE <<"*">>
    IN  IF found = <<>> THEN <<"*">> ELSE found

(***************************************************************************)
(* The claims.                                                             *)
(***************************************************************************)
\* C1: for a requiring location of atomic segments s1..sn (a scope and the
\* segment after it are one) and a dependency name d, iterateLocations yields
\* exactly n+1 candidates: s1/../sn/d, s1/../s(n-1)/d, ..., s1/d, then d.
C1_CandidatesNearestFirst ==
    pc = "resolved" =>
        /\ Len(candidates) = Len(atoms) + 1
        /\ \A k \in 1..Len(atoms) :
              candidates[k] =
                  Join(SubSeq(atoms, 1, Len(atoms) + 1 - k), <<"/">>) \o <<"/">> \o depName
        /\ candidates[Len(atoms) + 1] = depName

\* C1, its case: location a/@s/b and dependency d gave a/@s/b/d, a/d, d.
C1_Witness ==
    /\ pc = "resolved"
    /\ atoms = <<<<"a">>, <<"@", "s", "/", "b">>>>
    /\ depName = <<"d">>
    /\ candidates = << <<"a", "/", "@", "s", "/", "b", "/", "d">>,
                       <<"a", "/", "d">>, <<"d">> >>

\* The candidate at place i is the first one that is a lockfile key whose
\* version satisfies range.
FirstQualifying(cands, range, i) ==
    /\ HasOwn(packages, cands[i])
    /\ VersionSatisfies(cands[i], range)
    /\ \A j \in 1..(i - 1) :
          ~(HasOwn(packages, cands[j]) /\ VersionSatisfies(cands[j], range))

\* The declarations of the entry at L (dependencies, then optional ones)
\* whose first qualifying candidate is C.
DeclarationsResolvedTo(L, C) ==
    LET decls == Entry(packages, L).dependencies \o Entry(packages, L).optionalDependencies
    IN  {k \in 1..Len(decls) :
            \E i \in 1..Len(IterateLocations(L, decls[k][1])) :
                /\ IterateLocations(L, decls[k][1])[i] = C
                /\ FirstQualifying(IterateLocations(L, decls[k][1]), decls[k][2], i)}

\* C2: once the index is built, every key of it is a lockfile location, and a
\* location L stands in the dependents list of C once for every declaration of
\* L whose first candidate, nearest first, that is a lockfile key with a
\* version satisfying the range is C: a declaration without such a candidate
\* gives no edge, and none gives two.
C2_IndexIsFirstMatch ==
    pc = "collect" =>
        /\ DOMAIN dependents \subseteq Locations(packages)
        /\ \A L \in Locations(packages) : \A C \in Locations(packages) :
              Count(DependentsOf(dependents, C), L)
                  = Cardinality(DeclarationsResolvedTo(L, C))

\* C2, its case: foo requires bar@^1.0.0, its own foo/bar is 2.0.0 and is
\* passed over, the hoisted bar is 1.0.0 and gets the edge.
C2_Witness ==
    /\ pc = "collect"
    /\ packages = Pick(Catalog, {1, 3, 4})
    /\ DependentsOf(dependents, Bar) = <<Foo>>
    /\ Under(Foo, Bar) \notin DOMAIN dependents

\* C3: a valid bare name n matches exactly the locations whose id name is n.
C3_BareNameMatchesIdName ==
    (pc = "why" /\ Len(specs) = 1 /\ ValidForOldPackages(specs[1])) =>
        Range(collected) = {loc \in Locations(packages) : HasIdName(loc, specs[1])}

\* The spec reaches the name+range form.
ReachesNameRange(spec) ==
    /\ ~ValidForOldPackages(spec)
    /\ ~HasOwn(packages, Normalized(spec))
    /\ IndexOf(spec, "@", 1) > 0

\* C4: a query name@range that reaches the name+range form matches exactly the
\* locations whose id name is `name` and whose version satisfies `range`, and
\* every location whose id name is `name` when the range is "*" or empty.
C4_NameRangeMatches ==
    (pc = "why" /\ Len(specs) = 1 /\ ReachesNameRange(specs[1])) =>
        LET i == IndexOf(specs[1], "@", 1)
            name == Slice(specs[1], 0, i)
            range == SliceFrom(specs[1], i + 1)
        IN  Range(collected) =
                {loc \in Locations(packages) :
                    /\ HasIdName(loc, name)
                    /\ \/ range \in {<<>>, <<"*">>}
                       \/ VersionSatisfies(loc, range)}

\* C5 as stated: a query that is an existing location key once normalized
\* matches that one location and nothing else.
C5_LocationQueryMatchesOne ==
    (pc = "why" /\ Len(specs) = 1 /\ HasOwn(packages, Normalized(specs[1]))) =>
        collected = <<Normalized(specs[1])>>

\* C5, amended: queries that are not valid bare names and are existing
\* location keys once normalized are accepted, and match those locations and
\* nothing else.
C5_NonNameLocationQueryMatchesOne ==
    (/\ pc \notin {"explain", "collect"}
     /\ \A k \in 1..Len(specs) :
           /\ ~ValidForOldPackages(specs[k])
           /\ HasOwn(packages, Normalized(specs[k]))) =>
        /\ pc = "why"
        /\ Range(collected) = {Normalized(specs[k]) : k \in 1..Len(specs)}

\* C5, its case: foo/node_modules/bar matched foo/bar and not the hoisted bar.
C5_Witness ==
    /\ pc = "why"
    /\ specs = <<<<"foo", "/", "node_modules", "/", "bar">>>>
    /\ HasOwn(packages, Bar)
    /\ collected = <<Under(Foo, Bar)>>

\* A why-node, and below it only why-nodes, of entries whose id has its "@".
RECURSIVE ProperWhy(_)
ProperWhy(node) ==
    /\ node.kind = "why"
    /\ IndexOf(Entry(packages, node.location).id, "@", 1) > 0
    /\ \A k \in 1..Len(node.dependents) : ProperWhy(node.dependents[k])

\* C6: an entry whose id has no "@" after position 0 is no Why-node of the
\* result, at the top or in any dependents list: every element of every
\* dependents list is a proper Why-node.
C6_NoMalformedWhyNode ==
    pc = "format" => \A k \in 1..Len(result) : ProperWhy(result[k])

\* C7: makeWhy ends on every lockfile: the recursion never goes deeper than
\* there are locations, and the engine never has to stop it.
C7_MakeWhyTerminates ==
    /\ Len(stack) <= Len(packages)
    /\ err # "RangeError"

\* The spec is none of the three forms.
InvalidSpec(spec) ==
    /\ ~ValidForOldPackages(spec)
    /\ ~HasOwn(packages, Normalized(spec))
    /\ IndexOf(spec, "@", 1) <= 0

\* C8: with a spec of none of the three forms anywhere in the list, explain
\* fails with the invalid-spec error and collects no location.
C8_InvalidSpecFailsExplain ==
    (/\ pc \notin {"explain", "collect"}
     /\ \E k \in 1..Len(specs) : InvalidSpec(specs[k])) =>
        /\ pc = "failed"
        /\ err = "InvalidSpec"

ScenarioLockfile ==
    << Pkg(Foo, <<"foo", "@", "1.0.0">>, <<<<Bar, <<"^1.0.0">>>>>>, <<>>),
       Pkg(<<"foo", "/", "bar">>, <<"bar", "@", "1.2.0">>, <<>>, <<>>) >>

\* What explain(["bar"]) returns in the scenario.
ScenarioResult ==
    << WhyNode(Bar, <<"1.2.0">>, <<"foo", "/", "bar">>,
               <<WhyNode(Foo, <<"1.0.0">>, Foo, <<>>)>>) >>

\* C10 as stated: in the scenario the indented line is foo@^1.0.0 from foo@1.0.0.
C10_ScenarioAsStated ==
    (pc = "done" /\ packages = ScenarioLockfile /\ specs = <<Bar>>) =>
        /\ result = ScenarioResult
        /\ OutLines[1] = <<"bar", "@", "1.2.0">>
        /\ OutLines[3] = <<"  ", "foo", "@", "^1.0.0", " from ", "foo", "@", "1.0.0">>

\* C10, amended: in the scenario explain(["bar"]) returns the node of foo/bar
\* with the node of foo as its dependent, and format renders bar@1.2.0, its
\* path, the indented line bar@^1.0.0 from foo@1.0.0, and the path of foo.
C10_Scenario ==
    (pc = "done" /\ packages = ScenarioLockfile /\ specs = <<Bar>>) =>
        /\ result = ScenarioResult
        /\ OutLines =
               << <<"bar", "@", "1.2.0">>,
                  Dim(hasColors, <<"node_modules", "/", "foo", "/", "node_modules", "/", "bar">>),
                  <<"  ", "bar", "@", "^1.0.0", " from ", "foo", "@", "1.0.0">>,
                  <<"  ">> \o Dim(hasColors, <<"node_modules", "/", "foo">>) >>

\* C10, its case: the scenario ran to the end.
C10_Witness ==
    /\ pc = "done"
    /\ packages = ScenarioLockfile
    /\ specs = <<Bar>>
    /\ Len(result) = 1
    /\ Len(OutLines) = 4

====
